---- MODULE Spec2Model ----
(***************************************************************************)
(* A state-machine model of the portfolio page script src/app.js.          *)
(* Strings that the script inspects character by character (the contact    *)
(* form's field values) are sequences of one-character strings; strings    *)
(* it only copies (labels, messages, colours) are TLA+ strings.            *)
(***************************************************************************)
EXTENDS Integers, Sequences, FiniteSets, TLC

VARIABLES
    value,          \* contact form: field name -> current text of the field
    borderColor,    \* contact form: field id -> style.borderColor
    errorMsgs,      \* parent element -> texts of its .error-message children
    btnText,        \* submit button textContent
    btnDisabled,    \* submit button disabled
    pending,        \* suspended submit handlers, in timer order
    successAlerts,  \* number of alert('Message sent!') shown
    failureAlerts,  \* number of alert('Oops! ...') shown
    lastEvent,      \* outcome of the last form event handled
    everInvalid,    \* history: some submit has failed validation
    dataText,       \* textContent of the #site-data script, as JSON tokens
    siteData,       \* the global siteData
    placeholders,   \* data field -> textContent of its placeholder element
    skillsGrid,     \* children of #skills-grid
    projectsGrid,   \* children of #projects-grid
    contactSocial,  \* children of #contact-social
    footerSocial,   \* children of #footer-social
    yearShown,      \* #current-year has been filled in
    handlers,       \* the behaviours whose listeners are attached
    consoleErrors,  \* number of console.error calls
    uncaught,       \* an exception escaped the DOMContentLoaded listener
    phase,          \* "loading" before DOMContentLoaded, "loaded" after
    navToggleActive,\* #nav-toggle has class active
    navMenuActive,  \* #nav-menu has class active
    innerWidth,     \* window.innerWidth
    intersecting,   \* the sections the observer last reported as intersecting
    animateIn,      \* the sections with class animate-in
    barTimers,      \* scheduled skill-bar timers: [bar, delay left], in order
    barWidth,       \* skill bar (document order) -> style.width
    darkMode,       \* document.body has class dark-mode
    themeIcon,      \* textContent of .theme-toggle__icon
    clickHref,      \* href of the anchor last clicked
    defaultPrevented, \* the last anchor click had preventDefault() called
    scrolledTo      \* id of the element the last anchor click scrolled to

formVars == <<value, borderColor, errorMsgs, btnText, btnDisabled, pending,
              successAlerts, failureAlerts, everInvalid>>

loadVars == <<dataText, siteData, placeholders, skillsGrid, projectsGrid,
              contactSocial, footerSocial, yearShown, handlers,
              consoleErrors, uncaught, phase>>

pageVars == <<navToggleActive, navMenuActive, innerWidth, intersecting,
              animateIn, barTimers, barWidth>>

chromeVars == <<darkMode, themeIcon, clickHref, defaultPrevented, scrolledTo>>

vars == <<formVars, loadVars, pageVars, chromeVars, lastEvent>>

(***************************************************************************)
(* Bounds of the model.                                                    *)
(***************************************************************************)
MaxNameLen == 2
MaxMsgLen == 11
MaxEmailLen == 5
MaxSubmits == 2
MaxMembers == 2
MaxSkills == 2
MaxTimers == 4

(***************************************************************************)
(* Strings.                                                                *)
(***************************************************************************)
\* What trim() strips and \s matches: the ECMAScript WhiteSpace and
\* LineTerminator code points.  Those with no escape are written by name.
WhiteSpace ==
    {" ", "\t", "\n", "\r", "\f", "U+000B", "U+00A0", "U+1680", "U+2000",
     "U+2001", "U+2002", "U+2003", "U+2004", "U+2005", "U+2006", "U+2007",
     "U+2008", "U+2009", "U+200A", "U+2028", "U+2029", "U+202F", "U+205F",
     "U+3000", "U+FEFF"}

Rep(c, n) == [i \in 1..n |-> c]

RECURSIVE trimStart(_)
trimStart(s) ==
    IF s # <<>> /\ Head(s) \in WhiteSpace THEN trimStart(Tail(s)) ELSE s

RECURSIVE trimEnd(_)
trimEnd(s) ==
    IF s # <<>> /\ s[Len(s)] \in WhiteSpace
    THEN trimEnd(SubSeq(s, 1, Len(s) - 1))
    ELSE s

trim(s) == trimEnd(trimStart(s))

(***************************************************************************)
(* The page markup the script runs against (the contact form).             *)
(***************************************************************************)
Fields == {"name", "email", "message"}

\* Each field sits in its own wrapper element.
parentElement(f) == <<"form-group", f>>

Parents == {parentElement(f) : f \in Fields}

\* The fields carrying class form-control.
FormControls == Fields

\* The value contactForm.reset() gives a field.
defaultValue(f) == <<>>

\* The submit button's label in the markup.
SubmitLabel == "Send Message"

\* The elements with class section, and the viewport widths tried.
Sections == {"about", "skills", "contact"}

BreakpointPx == 768
StaggerMs == 150

Widths == {375, BreakpointPx - 1, BreakpointPx, 1024}

(***************************************************************************)
(* validateForm and its helpers.                                           *)
(***************************************************************************)
MinNameLen == 2
MinMessageLen == 10

AlertColor == "#dc3545"
NameErrorText == "Enter at least 2 characters"
EmailErrorText == "Enter a valid email"
MessageErrorText == "Message too short"
\* 'Sending' followed by U+2026, written here in ASCII.
SendingText == "Sending..."

\* /^[^\s@]+@[^\s@]+\.[^\s@]+$/ run as a state machine over the whole string:
\* 0 start, 1 in the local part, 2 after '@', 3 in the domain, 4 after the
\* '.', 5 in the last part (accepting).
regexPlain(c) == c \notin WhiteSpace /\ c # "@"

regexStep(S, c) ==
    { q \in 1..5 :
        \/ q = 1 /\ regexPlain(c) /\ (0 \in S \/ 1 \in S)
        \/ q = 2 /\ c = "@" /\ 1 \in S
        \/ q = 3 /\ regexPlain(c) /\ (2 \in S \/ 3 \in S)
        \/ q = 4 /\ c = "." /\ 3 \in S
        \/ q = 5 /\ regexPlain(c) /\ (4 \in S \/ 5 \in S) }

RECURSIVE regexRun(_, _)
regexRun(S, s) ==
    IF s = <<>> THEN S ELSE regexRun(regexStep(S, Head(s)), Tail(s))

emailRegexTest(s) == 5 \in regexRun({0}, s)

\* Mutant: the messages are removed but the borders keep their colour.
clearFormErrorsKeepsBorders(dom) ==
    [border |-> dom.border,
     errors |-> [p \in Parents |-> <<>>]]

\* dom is [border : field -> colour, errors : parent -> texts].
clearFormErrors(dom) ==
    [border |-> [f \in Fields |->
                    IF f \in FormControls THEN "" ELSE dom.border[f]],
     errors |-> [p \in Parents |-> <<>>]]

showFieldError(dom, id, msg) ==
    IF id \notin Fields THEN dom
    ELSE LET p == parentElement(id)
             old == dom.errors[p]
         IN [border |-> [dom.border EXCEPT ![id] = AlertColor],
             errors |-> [dom.errors EXCEPT ![p] =
                            IF old = <<>> THEN <<msg>>
                            ELSE [old EXCEPT ![1] = msg]]]

\* Mutant: the length test off by one.
nameTooShortOffByOne(name) == Len(name) <= MinNameLen

nameTooShort(name) == Len(name) < MinNameLen

messageTooShort(message) == Len(message) < MinMessageLen

\* Mutant: validation stops at the first failing field.
validateFormShortCircuit(dom, name, email, message) ==
    LET d0 == clearFormErrors(dom)
    IN IF nameTooShort(name)
       THEN [valid |-> FALSE, dom |-> showFieldError(d0, "name", NameErrorText)]
       ELSE IF ~emailRegexTest(email)
       THEN [valid |-> FALSE,
             dom |-> showFieldError(d0, "email", EmailErrorText)]
       ELSE IF messageTooShort(message)
       THEN [valid |-> FALSE,
             dom |-> showFieldError(d0, "message", MessageErrorText)]
       ELSE [valid |-> TRUE, dom |-> d0]

validateForm(dom, name, email, message) ==
    LET d0 == clearFormErrors(dom)
        d1 == IF nameTooShort(name)
              THEN showFieldError(d0, "name", NameErrorText) ELSE d0
        d2 == IF ~emailRegexTest(email)
              THEN showFieldError(d1, "email", EmailErrorText) ELSE d1
        d3 == IF messageTooShort(message)
              THEN showFieldError(d2, "message", MessageErrorText) ELSE d2
    IN [valid |-> ~nameTooShort(name) /\ emailRegexTest(email)
                    /\ ~messageTooShort(message),
        dom |-> d3]

(***************************************************************************)
(* Theme toggle.  The glyphs are written by name: "sun" for U+2600 U+FE0F  *)
(* and "moon" for U+1F319.                                                 *)
(***************************************************************************)
SunGlyph == "sun"
MoonGlyph == "moon"

\* The markup gives the toggle button an icon element.
IconElExists == TRUE

\* Mutant: the icon names the current theme instead of the other one.
updateThemeIconSameTheme(theme, icon) ==
    IF IconElExists
    THEN (IF theme = "dark" THEN MoonGlyph ELSE SunGlyph)
    ELSE icon

\* updateThemeIcon(theme): the icon's new text, given its old text.
updateThemeIcon(theme, icon) ==
    IF IconElExists
    THEN (IF theme = "dark" THEN SunGlyph ELSE MoonGlyph)
    ELSE icon

\* What setupThemeToggle does at once: the icon follows the body class.
setupThemeToggle(dark, icon) ==
    updateThemeIcon(IF dark THEN "dark" ELSE "light", icon)

\* No element: querySelector's null, and "no scroll was issued".
NoElement == "none"

\* The bar of a timer whose element is no longer in the document.
Detached == 0

\* Navigation and sections as the markup gives them.
InitPageUi ==
    /\ navToggleActive = FALSE
    /\ navMenuActive = FALSE
    /\ intersecting = {}
    /\ animateIn = {}
    /\ barTimers = <<>>
    /\ clickHref = <<>>
    /\ defaultPrevented = FALSE
    /\ scrolledTo = NoElement

\* The contact form as the markup gives it.
InitFormDom ==
    /\ borderColor = [f \in Fields |-> ""]
    /\ errorMsgs = [p \in Parents |-> <<>>]
    /\ btnText = SubmitLabel
    /\ btnDisabled = FALSE
    /\ pending = <<>>
    /\ successAlerts = 0
    /\ failureAlerts = 0
    /\ lastEvent = "none"
    /\ everInvalid = FALSE

(***************************************************************************)
(* JSON values and the embedded data document.                             *)
(***************************************************************************)
Undefined == [t |-> "undefined"]
Null == [t |-> "null"]
Str(s) == [t |-> "str", s |-> s]
Arr(a) == [t |-> "arr", a |-> a]
Obj(o) == [t |-> "obj", o |-> o]

\* The empty object literal {} that siteData starts as.
EmptyObject == Obj([k \in {} |-> Undefined])

\* obj.k: undefined when the property is absent (or obj is no object).
Get(v, k) ==
    IF v.t = "obj" /\ k \in DOMAIN v.o THEN v.o[k] ELSE Undefined

Put(o, k, x) == [j \in DOMAIN o \cup {k} |-> IF j = k THEN x ELSE o[j]]

\* JavaScript truthiness of a value.
Truthy(v) ==
    CASE v.t = "str" -> v.s # ""
      [] v.t \in {"undefined", "null"} -> FALSE
      [] OTHER -> TRUE

\* What assigning v to textContent shows.
RECURSIVE TextOf(_), arrayJoin(_)
TextOf(v) ==
    CASE v.t = "str" -> v.s
      [] v.t = "arr" -> arrayJoin(v.a)
      [] v.t = "obj" -> "[object Object]"
      [] OTHER -> ""

\* Array.prototype.join(','): null and undefined elements give the empty
\* string, an object element its toString().
arrayJoin(a) ==
    LET elementText(e) ==
            IF "t" \in DOMAIN e
            THEN (IF e.t \in {"undefined", "null"} THEN "" ELSE TextOf(e))
            ELSE "[object Object]"
    IN IF a = <<>> THEN ""
       ELSE IF Len(a) = 1 THEN elementText(a[1])
       ELSE elementText(a[1]) \o "," \o arrayJoin(Tail(a))

Punct(c) == [tok |-> c]
Member(k, v) == [tok |-> "member", k |-> k, v |-> v]

\* A run of JSON whitespace (space, tab, line feed, carriage return).
Ws == Punct("ws")

ParseError == [ok |-> FALSE, val |-> Undefined]

\* toks starts at a member of an object whose earlier members are in o.
RECURSIVE parseMembers(_, _)
parseMembers(toks, o) ==
    IF Len(toks) < 2 \/ toks[1].tok # "member" THEN ParseError
    ELSE LET o2 == Put(o, toks[1].k, toks[1].v)
         IN IF toks[2].tok = "}"
            THEN IF Len(toks) = 2 THEN [ok |-> TRUE, val |-> Obj(o2)]
                 ELSE ParseError
            ELSE IF toks[2].tok = ","
                 THEN parseMembers(SubSeq(toks, 3, Len(toks)), o2)
                 ELSE ParseError

\* The tokens of a text, the whitespace around them skipped.
skipWhitespace(text) == SelectSeq(text, LAMBDA t : t.tok # "ws")

\* JSON.parse: the value of a well-formed text, a SyntaxError otherwise.
JSONParse(text) ==
    LET toks == skipWhitespace(text)
    IN
    IF toks = <<>> THEN ParseError
    ELSE IF toks[1].tok = "null"
         THEN IF Len(toks) = 1 THEN [ok |-> TRUE, val |-> Null] ELSE ParseError
    ELSE IF toks[1].tok = "{"
         THEN IF Len(toks) = 2 /\ toks[2].tok = "}"
              THEN [ok |-> TRUE, val |-> EmptyObject]
              ELSE parseMembers(Tail(toks), EmptyObject.o)
    ELSE ParseError

(***************************************************************************)
(* loadSiteData.                                                           *)
(***************************************************************************)
\* [data, errors]: the new siteData and the number of console.error calls.
\* Only the empty textContent is falsy: a text of whitespace is parsed.
loadSiteData(text, data) ==
    IF text = <<>> THEN [data |-> data, errors |-> 0]
    ELSE LET r == JSONParse(text)
         IN IF r.ok THEN [data |-> r.val, errors |-> 0]
            ELSE [data |-> data, errors |-> 1]

(***************************************************************************)
(* The content builders.                                                   *)
(***************************************************************************)
DataFields == {"name", "role", "tagline", "bio", "email", "location"}

\* The text each placeholder holds in the markup.
PlaceholderText == "placeholder"

\* Mutant: the text is assigned whether or not there is one.
setTextAlways(texts, id, txt) == [texts EXCEPT ![id] = TextOf(txt)]

setText(texts, id, txt) ==
    IF Truthy(txt) THEN [texts EXCEPT ![id] = TextOf(txt)] ELSE texts

Digits == <<"0", "1", "2", "3", "4", "5", "6", "7", "8", "9">>

\* String(n) for a non-negative integer.
RECURSIVE NumToStr(_)
NumToStr(n) ==
    IF n < 10 THEN <<Digits[n + 1]>>
    ELSE NumToStr(n \div 10) \o <<Digits[(n % 10) + 1]>>

\* Mutant: data-level carries the displayed percentage text.
skillHtmlLevelWithSign(skill) ==
    [name |-> skill.name,
     percentage |-> NumToStr(skill.level) \o <<"%">>,
     dataLevel |-> NumToStr(skill.level) \o <<"%">>]

\* The block renderSkills builds for one skill.
skillHtml(skill) ==
    [name |-> skill.name,
     percentage |-> NumToStr(skill.level) \o <<"%">>,
     dataLevel |-> NumToStr(skill.level)]

\* Mutant: the container is not cleared before the blocks are inserted.
renderSkillsAppends(list, old) ==
    LET l == IF list.t = "undefined" THEN Arr(<<>>) ELSE list
    IN IF l.t # "arr" THEN [dom |-> old, threw |-> TRUE]
       ELSE [dom |-> old \o [i \in 1..Len(l.a) |-> skillHtml(l.a[i])],
             threw |-> FALSE]

\* A renderer gives [dom, threw]: the container's children when it ends and
\* whether it ended by throwing.  The old children are dropped first
\* (innerHTML = ''), and the default list = [] stands in for undefined only.
renderSkills(list, old) ==
    LET l == IF list.t = "undefined" THEN Arr(<<>>) ELSE list
    IN IF l.t # "arr" THEN [dom |-> <<>>, threw |-> TRUE]
       ELSE [dom |-> [i \in 1..Len(l.a) |-> skillHtml(l.a[i])],
             threw |-> FALSE]

\* s.split(',')
RECURSIVE split(_)
split(s) ==
    IF \A i \in 1..Len(s) : s[i] # "," THEN <<s>>
    ELSE LET c == CHOOSE i \in 1..Len(s) :
                      s[i] = "," /\ \A j \in 1..(i - 1) : s[j] # ","
         IN <<SubSeq(s, 1, c - 1)>> \o split(SubSeq(s, c + 1, Len(s)))

projectHtml(proj) ==
    [title |-> proj.title,
     tags |-> LET parts == split(proj.tech.s)
              IN [i \in 1..Len(parts) |-> trim(parts[i])]]

renderProjects(list, old) ==
    LET l == IF list.t = "undefined" THEN Arr(<<>>) ELSE list
    IN IF l.t # "arr" THEN [dom |-> <<>>, threw |-> TRUE]
       ELSE LET bad == {i \in 1..Len(l.a) : l.a[i].tech.t # "str"}
                stop == IF bad = {} THEN Len(l.a)
                        ELSE (CHOOSE i \in bad : \A j \in bad : i <= j) - 1
            IN [dom |-> [i \in 1..stop |-> projectHtml(l.a[i])],
                threw |-> bad # {}]

\* The functions the map literal inherits from Object.prototype.
InheritedMethods ==
    {"toString", "toLocaleString", "valueOf", "hasOwnProperty",
     "isPrototypeOf", "propertyIsEnumerable", "__defineGetter__",
     "__defineSetter__", "__lookupGetter__", "__lookupSetter__"}

\* map[platform] || link glyph, as the template prints it.  The lookup also
\* finds what the map inherits: a function prints as its source text and
\* the prototype object as [object Object].
getSocialIcon(platform) ==
    CASE platform = "GitHub" -> "cat"
      [] platform = "LinkedIn" -> "briefcase"
      [] platform = "Twitter" -> "bird"
      [] platform = "Instagram" -> "camera"
      [] platform = "constructor" -> "function Object() { [native code] }"
      [] platform = "__proto__" -> "[object Object]"
      [] platform \in InheritedMethods ->
             "function " \o platform \o "() { [native code] }"
      [] OTHER -> "link"

socialHtml(link, wrapperId) ==
    [href |-> link.url,
     class |-> IF wrapperId = "footer-social" THEN "footer__social-link"
               ELSE "contact__social-link",
     icon |-> getSocialIcon(link.platform),
     platform |-> link.platform]

\* [contact, footer, threw]: the contact wrapper is handled first.
renderSocial(links, oldContact, oldFooter) ==
    LET l == IF links.t = "undefined" THEN Arr(<<>>) ELSE links
    IN IF l.t # "arr"
       THEN [contact |-> <<>>, footer |-> oldFooter, threw |-> TRUE]
       ELSE [contact |-> [i \in 1..Len(l.a) |->
                            socialHtml(l.a[i], "contact-social")],
             footer |-> [i \in 1..Len(l.a) |->
                            socialHtml(l.a[i], "footer-social")],
             threw |-> FALSE]

\* The placeholder texts after the six setText calls.
RECURSIVE setTexts(_, _, _)
setTexts(texts, data, ids) ==
    IF ids = {} THEN texts
    ELSE LET id == CHOOSE i \in ids : TRUE
         IN setTexts(setText(texts, id, Get(data, id)), data, ids \ {id})

\* populateContent on a page whose containers hold dom: the page after it,
\* and whether it threw.
populateContent(data, dom) ==
    IF ~Truthy(data) THEN [dom |-> dom, threw |-> FALSE]
    ELSE LET texts == setTexts(dom.placeholders, data, DataFields)
             sk == renderSkills(Get(data, "skills"), dom.skills)
             pr == renderProjects(Get(data, "projects"), dom.projects)
             so == renderSocial(Get(data, "socialLinks"),
                                dom.contact, dom.footer)
         IN [dom |-> [placeholders |-> texts,
                      skills |-> sk.dom,
                      projects |-> IF sk.threw THEN dom.projects ELSE pr.dom,
                      contact |-> IF sk.threw \/ pr.threw THEN dom.contact
                                  ELSE so.contact,
                      footer |-> IF sk.threw \/ pr.threw THEN dom.footer
                                 ELSE so.footer],
             threw |-> sk.threw \/ pr.threw \/ so.threw]

(***************************************************************************)
(* The embedded documents considered.                                      *)
(***************************************************************************)
SkillGo == [name |-> "Go", level |-> 80]
SkillRust == [name |-> "Rust", level |-> 60]
SkillC == [name |-> "C", level |-> 5]

\* Skill lists of every length up to MaxSkills, in two orders.
SkillLists ==
    {[i \in 1..n |-> CASE (i + k) % 3 = 0 -> SkillGo
                       [] (i + k) % 3 = 1 -> SkillRust
                       [] OTHER -> SkillC] :
        n \in 0..MaxSkills, k \in 0..1}

\* The skills of the page the event handlers are exercised on.
DefaultSkills == <<SkillGo, SkillRust>>

ProjectWithTech ==
    [title |-> "P1", tech |-> Str(<<"a", ",", " ", "b", ",">>)]

ProjectWithoutTech == [title |-> "P2", tech |-> Undefined]

SocialLinks ==
    <<[platform |-> "GitHub", url |-> "https://github.com/x"],
      [platform |-> "Blog", url |-> "https://blog.x"]>>

Members ==
    {Member("name", Str("Ann")), Member("name", Str("")),
     Member("name", Null), Member("role", Str("Dev")),
     Member("skills", Null),
     Member("projects", Arr(<<ProjectWithTech>>)),
     Member("projects", Arr(<<ProjectWithTech, ProjectWithoutTech>>)),
     Member("socialLinks", Arr(SocialLinks)),
     Member("socialLinks", Null)}
    \cup {Member("skills", Arr(l)) : l \in SkillLists}

RECURSIVE objectBody(_)
objectBody(ms) ==
    IF Len(ms) = 0 THEN <<>>
    ELSE IF Len(ms) = 1 THEN <<ms[1]>>
    ELSE <<ms[1], Punct(",")>> \o objectBody(Tail(ms))

\* The text of an object with the members ms, in order.
ObjectText(ms) == <<Punct("{")>> \o objectBody(ms) \o <<Punct("}")>>

\* The well-formed documents: null, and the objects of at most n members.
WellFormedDocs(n) ==
    {<<Punct("null")>>}
    \cup {ObjectText(ms) : ms \in UNION {[1..k -> Members] : k \in 0..n}}

DeleteAt(s, i) == SubSeq(s, 1, i - 1) \o SubSeq(s, i + 1, Len(s))

\* Texts with whitespace: nothing else, around a document, inside one, and
\* around a broken one.
WhitespaceDocs ==
    {<<Ws>>,
     <<Ws, Punct("null"), Ws>>,
     <<Punct("{"), Ws, Member("name", Str("Ann")), Ws, Punct("}"), Ws>>,
     <<Ws, Punct("{"), Member("name", Str("Ann")), Ws>>}

\* Every well-formed document, each of them with one token lost, and the
\* texts with whitespace.
Docs(n) ==
    WellFormedDocs(n)
    \cup UNION {{DeleteAt(d, i) : i \in 1..Len(d)} : d \in WellFormedDocs(n)}
    \cup WhitespaceDocs

(***************************************************************************)
(* Initialisation of the page.                                             *)
(***************************************************************************)
AllHandlers == {"navigation", "theme", "scroll", "form", "sections"}

\* The DOMContentLoaded listener, from loadSiteData to setupSectionAnimations.
DOMContentLoaded ==
    /\ phase = "loading"
    /\ LET ld == loadSiteData(dataText, siteData)
           pc == populateContent(ld.data,
                                 [placeholders |-> placeholders,
                                  skills |-> skillsGrid,
                                  projects |-> projectsGrid,
                                  contact |-> contactSocial,
                                  footer |-> footerSocial])
       IN /\ siteData' = ld.data
          /\ consoleErrors' = consoleErrors + ld.errors
          /\ placeholders' = pc.dom.placeholders
          /\ skillsGrid' = pc.dom.skills
          /\ projectsGrid' = pc.dom.projects
          /\ contactSocial' = pc.dom.contact
          /\ footerSocial' = pc.dom.footer
          /\ uncaught' = pc.threw
          /\ yearShown' = ~pc.threw
          /\ handlers' = IF pc.threw THEN {} ELSE AllHandlers
          /\ themeIcon' = IF pc.threw THEN themeIcon
                          ELSE setupThemeToggle(darkMode, themeIcon)
    /\ phase' = "loaded"
    /\ lastEvent' = "load"
    /\ barWidth' = [i \in 1..Len(skillsGrid') |-> <<>>]
    /\ UNCHANGED <<dataText, formVars, navToggleActive, navMenuActive,
                   innerWidth, intersecting, animateIn, barTimers,
                   darkMode, clickHref, defaultPrevented, scrolledTo>>

\* The page as served, whatever theme its markup starts in.
InitPageMarkup ==
    /\ siteData = EmptyObject
    /\ placeholders = [id \in DataFields |-> PlaceholderText]
    /\ skillsGrid = <<>>
    /\ projectsGrid = <<>>
    /\ contactSocial = <<>>
    /\ footerSocial = <<>>
    /\ yearShown = FALSE
    /\ handlers = {}
    /\ consoleErrors = 0
    /\ uncaught = FALSE
    /\ phase = "loading"
    /\ InitPageUi
    /\ barWidth = <<>>

\* The page as served with the light theme and the moon icon in the markup.
InitPage ==
    /\ InitPageMarkup
    /\ darkMode = FALSE
    /\ themeIcon = MoonGlyph

\* The page as served, with any of the documents embedded.
InitLoad ==
    /\ dataText \in Docs(MaxMembers)
    /\ InitPage
    /\ innerWidth = 1024
    /\ value = [f \in Fields |-> defaultValue(f)]
    /\ InitFormDom

NextLoad == DOMContentLoaded

SpecLoad == InitLoad /\ [][NextLoad]_vars

\* The page once DOMContentLoaded has run on the document of the given skills.
LoadedPage(skills) ==
    /\ dataText = ObjectText(<<Member("name", Str("Ann")),
                               Member("skills", Arr(skills))>>)
    /\ siteData = JSONParse(dataText).val
    /\ placeholders = [id \in DataFields |->
                          IF id = "name" THEN "Ann" ELSE PlaceholderText]
    /\ skillsGrid = renderSkills(Arr(skills), <<>>).dom
    /\ projectsGrid = <<>>
    /\ contactSocial = <<>>
    /\ footerSocial = <<>>
    /\ yearShown = TRUE
    /\ handlers = AllHandlers
    /\ consoleErrors = 0
    /\ uncaught = FALSE
    /\ phase = "loaded"
    /\ InitPageUi
    /\ barWidth = [i \in 1..Len(skills) |-> <<>>]
    /\ darkMode = FALSE
    /\ themeIcon = updateThemeIcon("light", MoonGlyph)

(***************************************************************************)
(* The renderers called again on the loaded page, each with the data       *)
(* populateContent gave it.                                                *)
(***************************************************************************)
\* The bars are new elements: none has a width, and the timers still
\* pending hold the bars that were replaced.
RenderSkillsAgain ==
    /\ phase = "loaded"
    /\ skillsGrid' = renderSkills(Get(siteData, "skills"), skillsGrid).dom
    /\ barWidth' = [i \in 1..Len(skillsGrid') |-> <<>>]
    /\ barTimers' = [i \in 1..Len(barTimers) |->
                        [barTimers[i] EXCEPT !.bar = Detached]]
    /\ lastEvent' = "renderSkills"
    /\ UNCHANGED <<dataText, siteData, placeholders, projectsGrid,
                   contactSocial, footerSocial, yearShown, handlers,
                   consoleErrors, uncaught, phase, formVars,
                   navToggleActive, navMenuActive, innerWidth, intersecting,
                   animateIn, chromeVars>>

RenderProjectsAgain ==
    /\ phase = "loaded"
    /\ projectsGrid' =
           renderProjects(Get(siteData, "projects"), projectsGrid).dom
    /\ lastEvent' = "renderProjects"
    /\ UNCHANGED <<dataText, siteData, placeholders, skillsGrid,
                   contactSocial, footerSocial, yearShown, handlers,
                   consoleErrors, uncaught, phase, formVars, pageVars,
                   chromeVars>>

RenderSocialAgain ==
    /\ phase = "loaded"
    /\ LET so == renderSocial(Get(siteData, "socialLinks"),
                              contactSocial, footerSocial)
       IN /\ contactSocial' = so.contact
          /\ footerSocial' = so.footer
    /\ lastEvent' = "renderSocial"
    /\ UNCHANGED <<dataText, siteData, placeholders, skillsGrid,
                   projectsGrid, yearShown, handlers, consoleErrors,
                   uncaught, phase, formVars, pageVars, chromeVars>>

NextRender ==
    \/ DOMContentLoaded
    \/ RenderSkillsAgain
    \/ RenderProjectsAgain
    \/ RenderSocialAgain

SpecRender == InitLoad /\ [][NextRender]_vars

(***************************************************************************)
(* What the user can put into the fields.                                  *)
(***************************************************************************)
\* A text as typed, and with a space before and the given whitespace
\* character after it.
Padded(s, ws) == {s, <<" ">> \o s \o <<ws>>}

NameInputs ==
    {<<>>} \cup UNION {Padded(Rep("a", n), "\t") : n \in 1..MaxNameLen}

MessageInputs ==
    UNION {Padded(Rep("a", n), "\n") : n \in (MinMessageLen - 1)..MaxMsgLen}

EmailAlphabet == {"a", "@", ".", " "}

\* Every string over the alphabet of at most len characters.
EmailsUpTo(len) ==
    UNION {[1..n -> EmailAlphabet] : n \in 0..len}

TypedEmails ==
    { <<>>,
      <<"a", "@", "a", ".", "a">>,
      <<" ", "a", "@", "a", ".", "a", " ">>,
      <<"a", "@", "a">>,
      <<"a", "\t", "@", "a", ".", "a">> }

(***************************************************************************)
(* The contact form's handlers.                                            *)
(***************************************************************************)
\* The user edits one field.
TypeField ==
    /\ \E f \in Fields :
         \E v \in (CASE f = "name" -> NameInputs
                     [] f = "email" -> TypedEmails
                     [] OTHER -> MessageInputs) :
            /\ v # value[f]
            /\ value' = [value EXCEPT ![f] = v]
    /\ lastEvent' = "type"
    /\ UNCHANGED <<borderColor, errorMsgs, btnText, btnDisabled, pending,
                   successAlerts, failureAlerts, everInvalid, loadVars,
                   pageVars, chromeVars>>

\* Mutant: the early return is missing, the submission always starts.
afterValidationNoReturn(valid) ==
    /\ Len(pending) + successAlerts + failureAlerts < MaxSubmits
    /\ pending' = Append(pending, [originalText |-> btnText])
    /\ btnText' = SendingText
    /\ btnDisabled' = TRUE
    /\ lastEvent' = IF valid THEN "valid" ELSE "invalid"
    /\ everInvalid' = (everInvalid \/ ~valid)

\* The listener after validateForm returned valid: it returns, or it records
\* the button's label, shows the pending state and awaits the timer.
afterValidation(valid) ==
    IF ~valid
    THEN /\ lastEvent' = "invalid"
         /\ everInvalid' = TRUE
         /\ UNCHANGED <<btnText, btnDisabled, pending>>
    ELSE /\ Len(pending) + successAlerts + failureAlerts < MaxSubmits
         /\ pending' = Append(pending, [originalText |-> btnText])
         /\ btnText' = SendingText
         /\ btnDisabled' = TRUE
         /\ lastEvent' = "valid"
         /\ UNCHANGED everInvalid

\* The submit listener up to its await (or its early return).
OnSubmit ==
    LET name == trim(value["name"])
        email == trim(value["email"])
        message == trim(value["message"])
        r == validateForm([border |-> borderColor, errors |-> errorMsgs],
                          name, email, message)
    IN /\ "form" \in handlers
       /\ borderColor' = r.dom.border
       /\ errorMsgs' = r.dom.errors
       /\ UNCHANGED <<value, successAlerts, failureAlerts, loadVars, pageVars, chromeVars>>
       /\ afterValidation(r.valid)

\* Mutant: the awaited promise rejects.
PromiseOutcomeRejected == "rejected"

\* How the awaited promise settles: its executor only ever calls res.
PromiseOutcome == "resolved"

\* Mutant: the label is restored but the button stays disabled.
finallyBlockKeepsDisabled(originalText) ==
    /\ btnText' = originalText
    /\ UNCHANGED btnDisabled

\* The finally block of the submit listener.
finallyBlock(originalText) ==
    /\ btnText' = originalText
    /\ btnDisabled' = FALSE

\* The 800 ms timer of the oldest suspended handler fires and the handler
\* runs from its await to its end.
OnSubmitTimer ==
    /\ pending # <<>>
    /\ LET sub == Head(pending)
       IN /\ IF PromiseOutcome = "resolved"
             THEN /\ successAlerts' = successAlerts + 1
                  /\ value' = [f \in Fields |-> defaultValue(f)]
                  /\ UNCHANGED failureAlerts
             ELSE /\ failureAlerts' = failureAlerts + 1
                  /\ UNCHANGED <<successAlerts, value>>
          /\ finallyBlock(sub.originalText)
    /\ pending' = Tail(pending)
    /\ lastEvent' = "sent"
    /\ UNCHANGED <<borderColor, errorMsgs, everInvalid, loadVars, pageVars, chromeVars>>

InitForm ==
    /\ value = [f \in Fields |-> defaultValue(f)]
    /\ InitFormDom
    /\ LoadedPage(DefaultSkills)
    /\ innerWidth = 1024

NextForm == TypeField \/ OnSubmit \/ OnSubmitTimer

SpecForm == InitForm /\ [][NextForm]_vars

FairSpecForm == SpecForm /\ WF_vars(OnSubmitTimer)

\* The form already filled in with any triple of inputs, then submitted.
InitValidate ==
    /\ value \in {[f \in Fields |-> CASE f = "name" -> n
                                      [] f = "email" -> e
                                      [] OTHER -> m] :
                    n \in NameInputs, e \in EmailsUpTo(MaxEmailLen), m \in MessageInputs}
    /\ InitFormDom
    /\ LoadedPage(DefaultSkills)
    /\ innerWidth = 1024

NextValidate == OnSubmit \/ OnSubmitTimer

SpecValidate == InitValidate /\ [][NextValidate]_vars

(***************************************************************************)
(* In-page anchors.  An href is "#" followed by at most one identifier.    *)
(***************************************************************************)
\* The ids the markup gives to elements: the sections.
ElementIds == Sections

Hrefs == {<<"#", "about">>, <<"#", "skills">>, <<"#", "missing">>, <<"#">>}

\* document.querySelector on an id selector: a bare "#" is not a selector
\* and throws; otherwise the element of that id, or null.
querySelector(selector) ==
    IF Len(selector) < 2
    THEN [threw |-> TRUE, el |-> NoElement]
    ELSE [threw |-> FALSE,
          el |-> IF selector[2] \in ElementIds THEN selector[2]
                 ELSE NoElement]

\* Mutant: preventDefault() is called before the target is looked up.
smoothScrollPreventsFirst(href) ==
    LET found == querySelector(href)
    IN IF found.threw \/ found.el = NoElement
       THEN [prevented |-> TRUE, scrolled |-> NoElement]
       ELSE [prevented |-> TRUE, scrolled |-> found.el]

\* The click listener of setupSmoothScrolling: whether it called
\* preventDefault() and the element it scrolled into view.
smoothScroll(href) ==
    LET found == querySelector(href)
    IN IF found.threw \/ found.el = NoElement
       THEN [prevented |-> FALSE, scrolled |-> NoElement]
       ELSE [prevented |-> TRUE, scrolled |-> found.el]

\* An anchor click as the page observes it.
anchorClick(href) ==
    LET outcome == smoothScroll(href)
    IN /\ clickHref' = href
       /\ defaultPrevented' = outcome.prevented
       /\ scrolledTo' = outcome.scrolled

\* classList.toggle('dark-mode'): the class's new presence, also returned.
classListToggle(present) == ~present

(***************************************************************************)
(* Navigation (hamburger menu).                                            *)
(***************************************************************************)
\* classList.remove('active') on the button and on the menu.
closeMenu ==
    /\ navToggleActive' = FALSE
    /\ navMenuActive' = FALSE

\* Mutant: the click toggles the menu's class only.
ClickNavToggleMenuOnly ==
    /\ "navigation" \in handlers
    /\ navMenuActive' = ~navMenuActive
    /\ lastEvent' = "toggle"
    /\ UNCHANGED <<navToggleActive, innerWidth, intersecting, animateIn,
                   barTimers, barWidth, formVars, loadVars, chromeVars>>

\* A click on the menu button: its own listener toggles both classes; the
\* document listener finds the target inside the button.
ClickNavToggle ==
    /\ "navigation" \in handlers
    /\ navToggleActive' = ~navToggleActive
    /\ navMenuActive' = ~navMenuActive
    /\ lastEvent' = "toggle"
    /\ UNCHANGED <<innerWidth, intersecting, animateIn, barTimers, barWidth,
                   formVars, loadVars, chromeVars>>

\* A click on a .nav__link of the menu, an in-page anchor: the link's own
\* listener closes the menu and the anchor listener handles the href.
ClickNavLink ==
    /\ "navigation" \in handlers
    /\ closeMenu
    /\ \E href \in Hrefs : anchorClick(href)
    /\ lastEvent' = "link"
    /\ UNCHANGED <<innerWidth, intersecting, animateIn, barTimers, barWidth,
                   formVars, loadVars, darkMode, themeIcon>>

\* A click on an in-page anchor outside the menu: the anchor listener
\* handles the href and the document listener closes the menu.
ClickAnchor ==
    /\ "scroll" \in handlers
    /\ "navigation" \in handlers
    /\ closeMenu
    /\ \E href \in Hrefs : anchorClick(href)
    /\ lastEvent' = "anchor"
    /\ UNCHANGED <<innerWidth, intersecting, animateIn, barTimers, barWidth,
                   formVars, loadVars, darkMode, themeIcon>>

\* A click on the theme toggle: its listener flips the body class and
\* rewrites the icon; the document listener closes the menu unless the
\* markup puts the toggle inside the menu.
ClickThemeToggle ==
    /\ "theme" \in handlers
    /\ "navigation" \in handlers
    /\ LET isDark == classListToggle(darkMode)
       IN /\ darkMode' = isDark
          /\ themeIcon' = updateThemeIcon(IF isDark THEN "dark" ELSE "light",
                                          themeIcon)
    /\ \E insideMenu \in BOOLEAN :
          IF insideMenu
          THEN UNCHANGED <<navToggleActive, navMenuActive>>
          ELSE closeMenu
    /\ lastEvent' = "theme"
    /\ UNCHANGED <<innerWidth, intersecting, animateIn, barTimers, barWidth,
                   formVars, loadVars, clickHref, defaultPrevented,
                   scrolledTo>>

\* A click inside the menu but on none of its links: only the document
\* listener runs, and the menu contains the target.
ClickInMenu ==
    /\ "navigation" \in handlers
    /\ lastEvent' = "menu"
    /\ UNCHANGED <<pageVars, formVars, loadVars, chromeVars>>

\* A click outside both the button and the menu.
ClickOutside ==
    /\ "navigation" \in handlers
    /\ closeMenu
    /\ lastEvent' = "outside"
    /\ UNCHANGED <<innerWidth, intersecting, animateIn, barTimers, barWidth,
                   formVars, loadVars, chromeVars>>

\* Mutant: the breakpoint itself does not close the menu.
aboveBreakpoint(w) == w > BreakpointPx

\* The resize listener's test of window.innerWidth.
atOrAboveBreakpoint(w) == w >= BreakpointPx

\* The window is resized to width w.
Resize ==
    /\ "navigation" \in handlers
    /\ \E w \in Widths :
         /\ innerWidth' = w
         /\ IF atOrAboveBreakpoint(w) THEN closeMenu
            ELSE UNCHANGED <<navToggleActive, navMenuActive>>
    /\ lastEvent' = "resize"
    /\ UNCHANGED <<intersecting, animateIn, barTimers, barWidth,
                   formVars, loadVars, chromeVars>>

(***************************************************************************)
(* Section reveal and the skill bars.                                      *)
(***************************************************************************)
\* Mutant: the stagger runs from the last bar to the first.
animateSkillBarsReversed(timers, bars) ==
    timers \o [i \in 1..bars |-> [bar |-> i, delay |-> (bars - i) * StaggerMs]]

\* The timers animateSkillBars schedules: bar i (from 0) after i * 150 ms.
animateSkillBars(timers, bars) ==
    timers \o [i \in 1..bars |-> [bar |-> i, delay |-> (i - 1) * StaggerMs]]

\* Mutant: the class follows isIntersecting, so leaving removes it.
revealFollowsVisibility(classes, entries, now) ==
    (classes \ entries) \cup (entries \cap now)

\* The animate-in classes after the callback handled entries, given the
\* sections now intersecting.
reveal(classes, entries, now) == classes \cup (entries \cap now)

\* The observer's callback with one entry for each section of E, the
\* sections whose intersection state changed.
OnIntersection ==
    /\ "sections" \in handlers
    /\ \E E \in SUBSET Sections :
         /\ E # {}
         /\ LET now == (intersecting \ E) \cup (E \ intersecting)
                shown == E \cap now
            IN /\ intersecting' = now
               /\ animateIn' = reveal(animateIn, E, now)
               /\ IF "skills" \in shown
                  THEN /\ Len(barTimers) + Len(skillsGrid) <= MaxTimers
                       /\ barTimers' = animateSkillBars(barTimers,
                                                        Len(skillsGrid))
                  ELSE UNCHANGED barTimers
    /\ lastEvent' = "intersect"
    /\ UNCHANGED <<navToggleActive, navMenuActive, innerWidth, barWidth,
                   formVars, loadVars, chromeVars>>

\* The timers that are due, by position in barTimers.
DueTimers == {i \in 1..Len(barTimers) : barTimers[i].delay = 0}

\* The earliest-scheduled due timer runs its callback.
BarTimerFires ==
    /\ DueTimers # {}
    /\ LET i == CHOOSE j \in DueTimers : \A k \in DueTimers : j <= k
           b == barTimers[i].bar
       IN /\ IF b = Detached
             THEN UNCHANGED barWidth
             ELSE barWidth' = [barWidth EXCEPT
                                  ![b] = skillsGrid[b].dataLevel \o <<"%">>]
          /\ barTimers' = DeleteAt(barTimers, i)
    /\ lastEvent' = "bar"
    /\ UNCHANGED <<navToggleActive, navMenuActive, innerWidth, intersecting,
                   animateIn, formVars, loadVars, chromeVars>>

\* 150 ms pass with no timer due.
TimePasses ==
    /\ barTimers # <<>>
    /\ DueTimers = {}
    /\ barTimers' = [i \in 1..Len(barTimers) |->
                        [barTimers[i] EXCEPT !.delay = @ - StaggerMs]]
    /\ lastEvent' = "time"
    /\ UNCHANGED <<navToggleActive, navMenuActive, innerWidth, intersecting,
                   animateIn, barWidth, formVars, loadVars, chromeVars>>

InitUi ==
    /\ value = [f \in Fields |-> defaultValue(f)]
    /\ InitFormDom
    /\ LoadedPage(DefaultSkills)
    /\ innerWidth \in Widths

NextUi ==
    \/ ClickNavToggle
    \/ ClickNavLink
    \/ ClickInMenu
    \/ ClickOutside
    \/ Resize
    \/ OnIntersection
    \/ BarTimerFires
    \/ TimePasses

SpecUi == InitUi /\ [][NextUi]_vars

(***************************************************************************)
(* The page chrome from page load on: theme toggle, in-page anchors and    *)
(* the menu, whatever theme and icon the markup starts with.               *)
(***************************************************************************)
InitChrome ==
    /\ dataText = ObjectText(<<Member("name", Str("Ann"))>>)
    /\ InitPageMarkup
    /\ darkMode \in BOOLEAN
    /\ themeIcon \in {"", SunGlyph, MoonGlyph}
    /\ innerWidth \in Widths
    /\ value = [f \in Fields |-> defaultValue(f)]
    /\ InitFormDom

NextChrome ==
    \/ DOMContentLoaded
    \/ ClickThemeToggle
    \/ ClickAnchor
    \/ ClickNavToggle
    \/ ClickNavLink
    \/ ClickInMenu
    \/ ClickOutside
    \/ Resize

SpecChrome == InitChrome /\ [][NextChrome]_vars

(***************************************************************************)
(* The skills section from page load on: any skill list is rendered, then  *)
(* the observer and the bar timers run.                                    *)
(***************************************************************************)
SkillDocs == {ObjectText(<<Member("skills", Arr(l))>>) : l \in SkillLists}

InitSkills ==
    /\ dataText \in SkillDocs
    /\ InitPage
    /\ innerWidth = 1024
    /\ value = [f \in Fields |-> defaultValue(f)]
    /\ InitFormDom

NextSkills ==
    \/ DOMContentLoaded
    \/ OnIntersection
    \/ BarTimerFires
    \/ TimePasses

SpecSkills == InitSkills /\ [][NextSkills]_vars

\* A due timer's callback is run by the event loop, and time passes.
FairSpecSkills ==
    SpecSkills /\ WF_vars(BarTimerFires) /\ WF_vars(TimePasses)

(***************************************************************************)
(* The rules as the specification states them, written independently of    *)
(* the code's way of computing them.                                       *)
(***************************************************************************)
SetMin(S) == CHOOSE x \in S : \A y \in S : x <= y

SetMax(S) == CHOOSE x \in S : \A y \in S : y <= x

\* s without its leading and trailing whitespace.
Trimmed(s) ==
    LET idx == {i \in 1..Len(s) : s[i] \notin WhiteSpace}
    IN IF idx = {} THEN <<>> ELSE SubSeq(s, SetMin(idx), SetMax(idx))

\* One or more characters, none of them whitespace or '@'.
PlainRun(s) ==
    /\ s # <<>>
    /\ \A i \in 1..Len(s) : s[i] \notin WhiteSpace /\ s[i] # "@"

\* plain run, '@', plain run, '.', plain run.
MatchesEmailPattern(s) ==
    \E i, j \in 1..Len(s) :
        /\ i < j
        /\ s[i] = "@"
        /\ s[j] = "."
        /\ PlainRun(SubSeq(s, 1, i - 1))
        /\ PlainRun(SubSeq(s, i + 1, j - 1))
        /\ PlainRun(SubSeq(s, j + 1, Len(s)))

FieldPasses(f, v) ==
    CASE f = "name" -> Len(Trimmed(v)) >= 2
      [] f = "email" -> MatchesEmailPattern(Trimmed(v))
      [] OTHER -> Len(Trimmed(v)) >= 10

FieldErrorText(f) ==
    CASE f = "name" -> "Enter at least 2 characters"
      [] f = "email" -> "Enter a valid email"
      [] OTHER -> "Message too short"

RulesHold(vals) == \A f \in Fields : FieldPasses(f, vals[f])

\* The last event handled was a submit, so value is what it read.
JustSubmitted == lastEvent \in {"invalid", "valid"}

NoDecorations ==
    /\ \A f \in Fields : borderColor[f] # AlertColor
    /\ \A p \in Parents : errorMsgs[p] = <<>>

\* C1: a submit passes validation, and starts the simulated submission,
\* exactly when the trimmed name has at least 2 characters, the trimmed email
\* matches the pattern and the trimmed message has at least 10 characters.
C1_ValidIffRules ==
    [][ lastEvent' \in {"invalid", "valid"} =>
          /\ (lastEvent' = "valid") <=> RulesHold(value)
          /\ (pending' = Append(pending, [originalText |-> btnText]))
                <=> RulesHold(value)
          /\ (pending' = pending) <=> ~RulesHold(value) ]_vars

C1_Witness ==
    /\ lastEvent = "valid"
    /\ value["name"] = <<" ", "a", "a", "\t">>
    /\ Len(pending) = 1
    /\ btnDisabled

\* C2: a submission that passed validation ends with the submit control
\* enabled and labelled as it was just before that submission started.
C2_ButtonRestored ==
    [][ /\ Len(pending') > Len(pending) =>
              pending'[Len(pending')].originalText = btnText
        /\ Len(pending') < Len(pending) =>
              /\ btnText' = Head(pending).originalText
              /\ ~btnDisabled' ]_vars

C2_Witness ==
    /\ lastEvent = "sent"
    /\ pending = <<>>
    /\ ~btnDisabled
    /\ btnText = SubmitLabel

\* C3: after a validation pass every failing field has exactly one error
\* message of its own, with that field's text, and the alert border colour;
\* every passing field has neither.
C3_OneErrorPerFailingField ==
    JustSubmitted =>
        /\ \A f \in Fields :
              IF FieldPasses(f, value[f])
              THEN /\ errorMsgs[parentElement(f)] = <<>>
                   /\ borderColor[f] # AlertColor
              ELSE /\ errorMsgs[parentElement(f)] = <<FieldErrorText(f)>>
                   /\ borderColor[f] = AlertColor
        /\ Cardinality({p \in Parents : errorMsgs[p] # <<>>})
              = Cardinality({f \in Fields : ~FieldPasses(f, value[f])})

C3_Witness ==
    /\ lastEvent = "invalid"
    /\ value["name"] = <<"a">>
    /\ value["email"] = <<"a", "@", "a">>
    /\ \A f \in Fields : errorMsgs[parentElement(f)] = <<FieldErrorText(f)>>

\* C4: a submit whose three fields are valid leaves no alert border and no
\* error message, whatever earlier failed submissions left behind.
C4_ValidSubmitClearsErrors ==
    lastEvent = "valid" => NoDecorations

C4_Witness ==
    /\ lastEvent = "valid"
    /\ everInvalid
    /\ NoDecorations

\* C5: a submit that fails validation starts no timer and changes neither the
\* submit control, nor the field values, nor the acknowledgments shown.
C5_InvalidSubmitFrame ==
    [][ lastEvent' = "invalid" =>
          UNCHANGED <<pending, btnText, btnDisabled, value,
                      successAlerts, failureAlerts>> ]_vars

C5_Witness ==
    /\ lastEvent = "invalid"
    /\ pending # <<>>
    /\ btnDisabled
    /\ ~NoDecorations

\* C6: every submission that passed validation completes: its success
\* acknowledgment is shown, once, and the fields are reset to empty with it;
\* the failure acknowledgment is never shown.
C6_SubmissionCompletes ==
    /\ [](failureAlerts = 0)
    /\ [][ successAlerts' # successAlerts =>
             /\ successAlerts' = successAlerts + 1
             /\ pending' = Tail(pending)
             /\ \A f \in Fields : value'[f] = <<>> ]_vars
    /\ [][ (value' # value /\ lastEvent' # "type") =>
             successAlerts' = successAlerts + 1 ]_vars
    /\ \A n \in 1..MaxSubmits :
          (Len(pending) + successAlerts + failureAlerts >= n)
              ~> (successAlerts >= n)

C6_Witness ==
    /\ lastEvent = "sent"
    /\ successAlerts = MaxSubmits
    /\ \A f \in Fields : value[f] = <<>>

\* A JSON document of the kind embedded: null, or an object, that is a
\* brace pair around members separated by single commas.
WellFormedTokens(toks) ==
    \/ (Len(toks) = 1 /\ toks[1].tok = "null")
    \/ /\ Len(toks) >= 2
       /\ toks[1].tok = "{"
       /\ toks[Len(toks)].tok = "}"
       /\ Len(toks) = 2 \/ Len(toks) % 2 = 1
       /\ \A i \in 2..(Len(toks) - 1) :
             toks[i].tok = (IF i % 2 = 0 THEN "member" ELSE ",")

\* The tokens of a text that are not whitespace, in their order.
Significant(text) ==
    LET idx == {i \in 1..Len(text) : text[i].tok # "ws"}
        nth(k) == CHOOSE i \in idx : Cardinality({j \in idx : j < i}) = k - 1
    IN [k \in 1..Cardinality(idx) |-> text[nth(k)]]

\* Whitespace between the tokens of a document does not count.
WellFormedJson(text) == WellFormedTokens(Significant(text))

\* The embedded text is not a JSON document (the empty text included).
Malformed(text) == ~WellFormedJson(text)

\* The value the document gives field k: that of its last member named k.
DocHasField(text, k) ==
    \E i \in 1..Len(text) : text[i].tok = "member" /\ text[i].k = k

DocField(text, k) ==
    LET idx == {i \in 1..Len(text) : text[i].tok = "member" /\ text[i].k = k}
    IN text[SetMax(idx)].v

PresentNonEmpty(text, k) ==
    /\ ~Malformed(text)
    /\ DocHasField(text, k)
    /\ DocField(text, k).t = "str"
    /\ DocField(text, k).s # ""

\* C7: whatever the embedded document, initialisation runs to completion:
\* no exception escapes and all five behaviours end up attached.
C7_InitNeverFails ==
    phase = "loaded" => (~uncaught /\ handlers = AllHandlers)

\* C8: on a malformed document nothing throws and every placeholder keeps its
\* text; on any document a placeholder is overwritten only with a field that
\* is present and non-empty.
C8_PlaceholdersKept ==
    phase = "loaded" =>
        /\ Malformed(dataText) =>
              /\ ~uncaught
              /\ \A id \in DataFields : placeholders[id] = PlaceholderText
        /\ \A id \in DataFields :
              placeholders[id] # PlaceholderText =>
                  /\ PresentNonEmpty(dataText, id)
                  /\ placeholders[id] = DocField(dataText, id).s

C8_Witness ==
    /\ phase = "loaded"
    /\ Malformed(dataText)
    /\ DocHasField(dataText, "name")
    /\ consoleErrors = 1
    /\ placeholders["name"] = PlaceholderText

\* C9: a click on a menu link, a click outside button and menu, and a resize
\* to 768 or wider leave button and menu inactive; a click on the button
\* flips both; a narrower resize and a click in the menu off its links
\* change neither.
C9_MenuCloses ==
    [][ /\ ( \/ lastEvent' \in {"link", "outside"}
             \/ (lastEvent' = "resize" /\ innerWidth' >= 768) )
              => (~navMenuActive' /\ ~navToggleActive')
        /\ lastEvent' = "toggle"
              => /\ navMenuActive' = ~navMenuActive
                 /\ navToggleActive' = ~navToggleActive
        /\ ( \/ lastEvent' = "menu"
             \/ (lastEvent' = "resize" /\ innerWidth' < 768) )
              => UNCHANGED <<navMenuActive, navToggleActive>> ]_vars

C9_Witness ==
    /\ lastEvent = "resize"
    /\ innerWidth = 768
    /\ ~navMenuActive
    /\ ~navToggleActive

\* C10: a section never loses animate-in, and gains it only in a callback
\* that reports it as intersecting; no section has it at the start.
C10_RevealIsOneWay ==
    /\ animateIn = {}
    /\ [][ /\ animateIn \subseteq animateIn'
           /\ \A sec \in animateIn' \ animateIn :
                 /\ lastEvent' = "intersect"
                 /\ sec \in intersecting'
                 /\ sec \notin intersecting ]_vars

C10_Witness ==
    /\ "skills" \in animateIn
    /\ "skills" \notin intersecting
    /\ "about" \notin animateIn
    /\ "about" \notin intersecting

(***************************************************************************)
(* The skills section.                                                     *)
(***************************************************************************)
\* The skill list of the embedded document.
DocSkills == DocField(dataText, "skills").a

\* The number a string of decimal digits denotes.
RECURSIVE DecimalValue(_)
DecimalValue(d) ==
    IF d = <<>> THEN 0
    ELSE 10 * DecimalValue(SubSeq(d, 1, Len(d) - 1))
         + (CHOOSE n \in 0..9 : Digits[n + 1] = d[Len(d)])

IsDecimal(d) ==
    /\ d # <<>>
    /\ \A i \in 1..Len(d) : \E n \in 0..9 : Digits[n + 1] = d[i]
    /\ Len(d) > 1 => d[1] # "0"

\* A width style that is the given level as a percentage.
IsPercentOf(w, level) ==
    /\ w # <<>>
    /\ w[Len(w)] = "%"
    /\ IsDecimal(SubSeq(w, 1, Len(w) - 1))
    /\ DecimalValue(SubSeq(w, 1, Len(w) - 1)) = level

Filled(i) == barWidth[i] # <<>>

\* C11: once the skills section carries animate-in, no step schedules
\* further skill-bar timers, so the animation is started at most once
\* whatever the sequence of intersection events.
C11_AnimationStartsOnce ==
    [][("skills" \in animateIn) => Len(barTimers') <= Len(barTimers)]_vars

\* The timers a step schedules when the skills section enters the viewport.
C12_Scheduled ==
    ("skills" \in intersecting' /\ "skills" \notin intersecting) =>
        /\ Len(barTimers') = Len(barTimers) + Len(DocSkills)
        /\ \A i \in 1..Len(DocSkills) :
              barTimers'[Len(barTimers) + i] =
                  [bar |-> i, delay |-> (i - 1) * 150]

\* A filled bar shows its level, and the bars before it are filled.
C12_InOrder ==
    \A i \in DOMAIN barWidth :
        Filled(i) => /\ IsPercentOf(barWidth[i], DocSkills[i].level)
                     /\ \A j \in 1..(i - 1) : Filled(j)

\* C12: once the skills section is revealed, bar i (from 0) is scheduled
\* at delay i * 150 ms, a filled bar shows its data-level as a percentage,
\* no bar is filled before an earlier bar, and every bar is eventually
\* filled.
C12_BarsFillInOrder ==
    /\ [][C12_Scheduled]_vars
    /\ []C12_InOrder
    /\ ("skills" \in animateIn) ~> (\A i \in DOMAIN barWidth : Filled(i))

\* C12 witness: a later bar has been filled, after the first one.
C12_Witness ==
    /\ "skills" \in animateIn
    /\ Len(barWidth) >= 2
    /\ \A i \in DOMAIN barWidth : Filled(i)
    /\ barTimers = <<>>

\* C13: a list of N skills is rendered as N progress bars in list order,
\* each with its skill's level as data-level, and before the skills
\* section's reveal trigger fires no bar has a width style.
C13_BarsRenderedUnfilled ==
    phase = "loaded" =>
        /\ Len(skillsGrid) = Len(DocSkills)
        /\ \A i \in DOMAIN skillsGrid :
              /\ skillsGrid[i].name = DocSkills[i].name
              /\ IsDecimal(skillsGrid[i].dataLevel)
              /\ DecimalValue(skillsGrid[i].dataLevel) = DocSkills[i].level
        /\ ("skills" \notin animateIn =>
               \A i \in DOMAIN barWidth : ~Filled(i))

\* C13 witness: two bars rendered, other sections revealed, skills not yet.
C13_Witness ==
    /\ phase = "loaded"
    /\ Len(skillsGrid) = 2
    /\ "about" \in animateIn
    /\ "skills" \notin animateIn
    /\ \A i \in DOMAIN barWidth : ~Filled(i)

(***************************************************************************)
(* The renderers.                                                          *)
(***************************************************************************)
\* The renderer named by the event has run before: at page load when
\* nothing was thrown there, or in the step before.
RanBefore(event) == ~uncaught \/ lastEvent = event

\* A social container's links without their per-container class.
LinkSeq(container) ==
    [i \in 1..Len(container) |->
        [href |-> container[i].href, platform |-> container[i].platform,
         icon |-> container[i].icon]]

C14_SameAgain ==
    /\ (lastEvent' = "renderSkills" /\ RanBefore("renderSkills"))
           => skillsGrid' = skillsGrid
    /\ (lastEvent' = "renderProjects" /\ RanBefore("renderProjects"))
           => projectsGrid' = projectsGrid
    /\ (lastEvent' = "renderSocial" /\ RanBefore("renderSocial"))
           => /\ contactSocial' = contactSocial
              /\ footerSocial' = footerSocial

C14_NoDuplicates ==
    (phase = "loaded" /\ ~uncaught) =>
        /\ Get(siteData, "skills").t = "arr"
               => Len(skillsGrid) = Len(Get(siteData, "skills").a)
        /\ Get(siteData, "projects").t = "arr"
               => Len(projectsGrid) = Len(Get(siteData, "projects").a)
        /\ Get(siteData, "socialLinks").t = "arr"
               => Len(contactSocial) = Len(Get(siteData, "socialLinks").a)

\* C14: a renderer called again with the same data leaves its container
\* as the earlier call left it, with one node per list item, and the
\* contact and footer containers hold the same link sequence.
C14_RenderersIdempotent ==
    /\ [][C14_SameAgain]_vars
    /\ [](C14_NoDuplicates /\ LinkSeq(contactSocial) = LinkSeq(footerSocial))

\* C14 witness: non-empty containers after a renderer ran a second time.
C14_Witness ==
    /\ lastEvent \in {"renderSkills", "renderProjects", "renderSocial"}
    /\ ~uncaught
    /\ skillsGrid # <<>>
    /\ contactSocial # <<>>
    /\ Len(footerSocial) = 2

(***************************************************************************)
(* Theme, anchors and menu.                                                *)
(***************************************************************************)
C15_IconInSync ==
    "theme" \in handlers =>
        /\ themeIcon = "sun" <=> darkMode
        /\ themeIcon = "moon" <=> ~darkMode

C15_ClickFlips == lastEvent' = "theme" => darkMode' = ~darkMode

\* C15: once the page is initialised the toggle's icon is the sun exactly
\* when the body has dark-mode and the moon exactly when it has not, and
\* every click flips the class (so two clicks restore class and icon).
C15_ThemeIconFollowsClass == [][C15_ClickFlips]_vars /\ []C15_IconInSync

\* C15 witness: a click has put the page in dark mode.
C15_Witness ==
    /\ lastEvent = "theme"
    /\ darkMode
    /\ themeIcon = "sun"

\* The element an href refers to exists.
TargetExists(href) == \E id \in ElementIds : href = <<"#", id>>

\* C16: the last anchor click had its default action cancelled, and
\* scrolled its target into view, exactly when the element its href refers
\* to exists; otherwise neither happened.
C16_ScrollIffTargetExists ==
    clickHref # <<>> =>
        /\ defaultPrevented <=> TargetExists(clickHref)
        /\ scrolledTo # NoElement <=> TargetExists(clickHref)
        /\ TargetExists(clickHref) => clickHref = <<"#", scrolledTo>>

\* C16 witness: an anchor click whose target exists, cancelled and scrolled.
C16_Witness ==
    /\ lastEvent = "anchor"
    /\ clickHref = <<"#", "about">>
    /\ defaultPrevented
    /\ scrolledTo = "about"

\* C17: while some submission is pending the submit button is disabled and
\* labelled Sending..., and while none is pending it is enabled and shows
\* the label it had at page load.
C17_ButtonTracksPending ==
    /\ pending # <<>> => (btnDisabled /\ btnText = "Sending...")
    /\ pending = <<>> => (~btnDisabled /\ btnText = "Send Message")

\* C18: the menu button carries active exactly when the menu does.
C18_ButtonAndMenuInStep == navToggleActive <=> navMenuActive

\* C18 witness: a button click has opened the menu.
C18_Witness ==
    /\ lastEvent = "toggle"
    /\ navToggleActive
    /\ navMenuActive

====
